---- MODULE Spec2Model ----
(***************************************************************************)
(* Model of the Blender add-on "Axis Vertex Select"                        *)
(* (src/axis_vertex_select.py): the six operators that select vertices by  *)
(* world axis and check or repair mirror symmetry of the edit mesh.        *)
(*                                                                         *)
(* Coordinates are integers (multiples of one length quantum), so every    *)
(* comparison of the source is exact.  Euclidean distances are kept        *)
(* squared: math.sqrt is strictly increasing on the non-negative reals, so *)
(* d1 < d2 and d > threshold are decided by the squares.                   *)
(***************************************************************************)
EXTENDS Integers, Sequences, FiniteSets

(* ------------------------------------------------------------------ *)
(* Bounds of the model                                                 *)
(* ------------------------------------------------------------------ *)

\* Largest mesh (number of vertices) under SpecSnap and SpecCheck.
MaxVerts == 3

\* Largest mesh under Spec, which runs all six operators.
MaxVertsAll == 2

\* Largest mesh under SpecSnapCheck and SpecMiddle, which run operators one
\* after another.
MaxVertsSession == 2

\* Local positions of the vertices of the initial meshes; matrix_world
\* turns them into world space.  Along the first coordinate there are a
\* mirrored pair (2 and -2) and near misses (1 and -3); the second
\* coordinate adds an offset across that direction and has vertices on its
\* own plane (0); the third coordinate is 0 throughout.
Positions ==
    {<<-3, 0, 0>>, <<-2, 0, 0>>, <<-2, 1, 0>>, <<1, 0, 0>>, <<2, 0, 0>>}

\* Values of the two threshold properties, in length quanta.
Thresholds == {1, 2}

(* ------------------------------------------------------------------ *)
(* Vectors and matrices (mathutils)                                    *)
(* ------------------------------------------------------------------ *)

Abs(x) == IF x < 0 THEN -x ELSE x

MatVec(m, v) ==
    [i \in 1..3 |-> m[i][1] * v[1] + m[i][2] * v[2] + m[i][3] * v[3]]

MatMul(m, n) ==
    [i \in 1..3 |-> [j \in 1..3 |->
        m[i][1] * n[1][j] + m[i][2] * n[2][j] + m[i][3] * n[3][j]]]

Identity == << <<1, 0, 0>>, <<0, 1, 0>>, <<0, 0, 1>> >>

\* Local x -> world y, y -> z, z -> x.
RotXYZ == << <<0, 0, 1>>, <<1, 0, 0>>, <<0, 1, 0>> >>

\* Local x -> world z, y -> x, z -> y.
RotZXY == << <<0, 1, 0>>, <<0, 0, 1>>, <<1, 0, 0>> >>

\* The object transforms of the model: a group of rotations.
Matrices == {Identity, RotXYZ, RotZXY}

Inverted(m) == CHOOSE n \in Matrices : MatMul(n, m) = Identity

(* ------------------------------------------------------------------ *)
(* Scene properties (AxisSelectProperties)                             *)
(* ------------------------------------------------------------------ *)

Axes == {"X", "Y", "Z"}

AxisIdx(axis) == CASE axis = "X" -> 1 [] axis = "Y" -> 2 [] axis = "Z" -> 3

DefaultProps ==
    [x_pos |-> FALSE, x_neg |-> FALSE, y_pos |-> FALSE, y_neg |-> FALSE,
     z_pos |-> FALSE, z_neg |-> FALSE,
     use_x |-> TRUE, use_y |-> TRUE, use_z |-> TRUE,
     center_threshold |-> 1, sym_axis |-> "X", sym_threshold |-> 1]

\* The panel settings an axis filter reads: the six sign flags.
FlagProps ==
    {[DefaultProps EXCEPT !.x_pos = f[1], !.x_neg = f[2], !.y_pos = f[3],
                          !.y_neg = f[4], !.z_pos = f[5], !.z_neg = f[6]] :
        f \in [1..6 -> BOOLEAN]}

\* The settings Select Center Vertices reads.
CenterProps ==
    {[DefaultProps EXCEPT !.use_x = u[1], !.use_y = u[2], !.use_z = u[3],
                          !.center_threshold = t] :
        u \in [1..3 -> BOOLEAN], t \in Thresholds}

\* The settings Snap to Symmetry and Check Symmetry read.
SymProps ==
    {[DefaultProps EXCEPT !.sym_axis = a, !.sym_threshold = t] :
        a \in Axes, t \in Thresholds}

\* The settings Snap to Middle reads.
MiddleProps == {[DefaultProps EXCEPT !.sym_axis = a] : a \in Axes}

(* ------------------------------------------------------------------ *)
(* State                                                               *)
(* ------------------------------------------------------------------ *)

VARIABLES
    verts,         \* bm.verts: sequence of [co: local position, select]
    matrix_world,  \* obj.matrix_world
    prev_verts,    \* bm.verts when the last operator was called
    op,            \* bl_idname of the last operator called ("none" at start)
    edit_object,   \* whether context.edit_object was set in the last call
    props,         \* scene.axis_select_props as read by the last call
    status,        \* what execute returned: "FINISHED" or "CANCELLED"
    report,        \* what self.report was given: [type, message, a, b]
    closest        \* Snap to Symmetry: its axis and, for every vertex, the
                   \* closest_vert found for it (0: None); a Check Symmetry
                   \* that runs directly after it keeps the record

vars == <<verts, matrix_world, prev_verts, op, edit_object, props,
          status, report, closest>>

NoReport == [type |-> "none", message |-> "none", a |-> 0, b |-> 0]

Report(type, message, a, b) ==
    [type |-> type, message |-> message, a |-> a, b |-> b]

NoClosest == [axis |-> "none", vert |-> << >>]

WorldCo(mat, v) == MatVec(mat, v.co)

VertexChoices == [co : Positions, select : BOOLEAN]

Meshes(n) == UNION {[1..k -> VertexChoices] : k \in 0..n}

InitWith(n) ==
    /\ verts \in Meshes(n)
    /\ matrix_world \in Matrices
    /\ prev_verts = verts
    /\ op = "none"
    /\ edit_object = TRUE
    /\ props = DefaultProps
    /\ status = "none"
    /\ report = NoReport
    /\ closest = NoClosest

(* ------------------------------------------------------------------ *)
(* Every operator: the call bookkeeping and the precondition failure   *)
(* ------------------------------------------------------------------ *)

\* What one call records besides the mesh, the report and the status.
Called(name, obj, p) ==
    /\ prev_verts' = verts
    /\ op' = name
    /\ edit_object' = obj
    /\ props' = p
    /\ UNCHANGED matrix_world

\* NoEditObject with the selection cleared before the object is looked at.
NoEditObjectAfterDeselect(name) ==
    /\ Called(name, FALSE, DefaultProps)
    /\ report' = Report("ERROR", "No object in edit mode!", 0, 0)
    /\ status' = "CANCELLED"
    /\ closest' = NoClosest
    /\ verts' = [i \in DOMAIN verts |-> [verts[i] EXCEPT !.select = FALSE]]

\* "if not obj": nothing of the mesh is read or written.
NoEditObject(name) ==
    /\ Called(name, FALSE, DefaultProps)
    /\ report' = Report("ERROR", "No object in edit mode!", 0, 0)
    /\ status' = "CANCELLED"
    /\ closest' = NoClosest
    /\ UNCHANGED verts

\* The matches of a Snap to Symmetry stay on record for the one call after it.
CarryClosest == IF op = "object.snap_to_symmetry" THEN closest ELSE NoClosest

\* bm.verts with the select flag of vertex i set to sel[i], positions kept.
WithSelect(bm, sel) ==
    [i \in DOMAIN bm |-> [bm[i] EXCEPT !.select = sel[i]]]

(* ------------------------------------------------------------------ *)
(* Select / Deselect Vertices by Axis                                  *)
(* ------------------------------------------------------------------ *)

AnyFlag(p) ==
    p.x_pos \/ p.x_neg \/ p.y_pos \/ p.y_neg \/ p.z_pos \/ p.z_neg

\* PosRejects with "<": a coordinate of exactly 0 passes a "+" flag.
PosRejectsBelowZero(flag, c) == flag /\ c < 0

\* "if props.x_pos and world_co.x <= 0": an enabled "+" flag rejects.
PosRejects(flag, c) == flag /\ c <= 0

\* "if props.x_neg and world_co.x >= 0": an enabled "-" flag rejects.
NegRejects(flag, c) == flag /\ c >= 0

\* The value of `select` (and of `should_deselect`) after the six tests.
PassesFlags(p, world_co) ==
    ~ \/ PosRejects(p.x_pos, world_co[1])
      \/ NegRejects(p.x_neg, world_co[1])
      \/ PosRejects(p.y_pos, world_co[2])
      \/ NegRejects(p.y_neg, world_co[2])
      \/ PosRejects(p.z_pos, world_co[3])
      \/ NegRejects(p.z_neg, world_co[3])

SelectAxisResult(bm, mat, p) ==
    WithSelect(bm, [i \in DOMAIN bm |-> PassesFlags(p, WorldCo(mat, bm[i]))])

DeselectAxisResult(bm, mat, p) ==
    WithSelect(bm, [i \in DOMAIN bm |->
        IF ~bm[i].select THEN bm[i].select
        ELSE IF PassesFlags(p, WorldCo(mat, bm[i])) THEN FALSE
        ELSE bm[i].select])

SelectAxisVertices ==
    \/ NoEditObject("object.select_axis_vertices")
    \/ \E p \in FlagProps :
        /\ Called("object.select_axis_vertices", TRUE, p)
        /\ closest' = NoClosest
        /\ IF ~AnyFlag(p)
           THEN /\ report' = Report("WARNING", "No axis selected!", 0, 0)
                /\ status' = "CANCELLED"
                /\ UNCHANGED verts
           ELSE /\ verts' = SelectAxisResult(verts, matrix_world, p)
                /\ report' = NoReport
                /\ status' = "FINISHED"

DeselectAxisVertices ==
    \/ NoEditObject("object.deselect_axis_vertices")
    \/ \E p \in FlagProps :
        /\ Called("object.deselect_axis_vertices", TRUE, p)
        /\ closest' = NoClosest
        /\ IF ~AnyFlag(p)
           THEN /\ report' = Report("WARNING", "No axis selected!", 0, 0)
                /\ status' = "CANCELLED"
                /\ UNCHANGED verts
           ELSE /\ verts' = DeselectAxisResult(verts, matrix_world, p)
                /\ report' = NoReport
                /\ status' = "FINISHED"

(* ------------------------------------------------------------------ *)
(* Select Center Vertices                                              *)
(* ------------------------------------------------------------------ *)

AnyUse(p) == p.use_x \/ p.use_y \/ p.use_z

InCenterBand(p, world_co) ==
    ~ \/ (p.use_x /\ Abs(world_co[1]) > p.center_threshold)
      \/ (p.use_y /\ Abs(world_co[2]) > p.center_threshold)
      \/ (p.use_z /\ Abs(world_co[3]) > p.center_threshold)

SelectCenterResult(bm, mat, p) ==
    WithSelect(bm, [i \in DOMAIN bm |-> InCenterBand(p, WorldCo(mat, bm[i]))])

SelectCenterVertices ==
    \/ NoEditObject("object.select_center_vertices")
    \/ \E p \in CenterProps :
        /\ Called("object.select_center_vertices", TRUE, p)
        /\ closest' = NoClosest
        /\ IF ~AnyUse(p)
           THEN /\ report' = Report("WARNING",
                                    "No axis selected for center threshold!", 0, 0)
                /\ status' = "CANCELLED"
                /\ UNCHANGED verts
           ELSE /\ verts' = SelectCenterResult(verts, matrix_world, p)
                /\ report' = NoReport
                /\ status' = "FINISHED"

(* ------------------------------------------------------------------ *)
(* Snap to Middle                                                      *)
(* ------------------------------------------------------------------ *)

\* [v for v in bm.verts if v.select], as vertex indices in mesh order.
RECURSIVE SelectedFrom(_, _)
SelectedFrom(bm, i) ==
    IF i > Len(bm) THEN << >>
    ELSE IF bm[i].select THEN <<i>> \o SelectedFrom(bm, i + 1)
    ELSE SelectedFrom(bm, i + 1)

SelectedVerts(bm) == SelectedFrom(bm, 1)

\* new_world_co: the world position with the chosen axis coordinate set to 0.
MiddleWorldCo(world_co, axis_idx) == [world_co EXCEPT ![axis_idx] = 0]

\* MiddleLocalCo with the local coordinate zeroed, not the world one.
MiddleLocalCoUntransformed(mat, v, axis_idx) == [v.co EXCEPT ![axis_idx] = 0]

\* vert.co after the loop body: back to local space.
MiddleLocalCo(mat, v, axis_idx) ==
    MatVec(Inverted(mat), MiddleWorldCo(WorldCo(mat, v), axis_idx))

RECURSIVE MiddleLoop(_, _, _, _, _)
MiddleLoop(selected_verts, k, bm, mat, axis_idx) ==
    IF k > Len(selected_verts) THEN bm
    ELSE LET vert == selected_verts[k]
             moved == [bm EXCEPT ![vert].co = MiddleLocalCo(mat, bm[vert], axis_idx)]
         IN  MiddleLoop(selected_verts, k + 1, moved, mat, axis_idx)

SnapToMiddleResult(bm, mat, p) ==
    MiddleLoop(SelectedVerts(bm), 1, bm, mat, AxisIdx(p.sym_axis))

SnapToMiddle ==
    \/ NoEditObject("object.snap_to_middle")
    \/ \E p \in MiddleProps :
        /\ Called("object.snap_to_middle", TRUE, p)
        /\ closest' = NoClosest
        /\ IF SelectedVerts(verts) = << >>
           THEN /\ report' = Report("WARNING", "No vertices selected!", 0, 0)
                /\ status' = "CANCELLED"
                /\ UNCHANGED verts
           ELSE /\ verts' = SnapToMiddleResult(verts, matrix_world, p)
                /\ report' = Report("INFO", "Snapped to middle",
                                    Len(SelectedVerts(verts)), 0)
                /\ status' = "FINISHED"

(* ------------------------------------------------------------------ *)
(* Snap to Symmetry                                                    *)
(* ------------------------------------------------------------------ *)

\* float('inf'), as a squared distance: it is below no distance and every
\* distance is below it.
Inf == -1

\* a < b for squared distances of which either may be float('inf').
Below(a, b) == a # Inf /\ (b = Inf \/ a < b)

\* mirrored_co: the world position with the axis coordinate negated.
Mirrored(world_co, axis_idx) ==
    [world_co EXCEPT ![axis_idx] = -world_co[axis_idx]]

\* "if other_vert == sel_vert or other_vert.select: continue"
NotCandidate(bm, sel_vert, other_vert) ==
    other_vert = sel_vert \/ bm[other_vert].select

\* SameSide with the comparison of the product weakened to "> 0".
SameSideOrPlaneAllowed(sel_axis_co, other_axis_co) ==
    sel_axis_co * other_axis_co > 0

\* "if (sel_world_co[axis_idx] * other_world_co[axis_idx]) >= 0: continue"
SameSide(sel_axis_co, other_axis_co) == sel_axis_co * other_axis_co >= 0

\* "if diff > threshold": one coordinate rules the candidate out.
TooFar(diff, threshold) == diff > threshold

\* The loop "for i in range(3)": the sum of the squared differences, or
\* float('inf') as soon as one difference exceeds the threshold.
RECURSIVE TotalDistance(_, _, _, _, _)
TotalDistance(i, total_distance, mirrored_co, other_world_co, threshold) ==
    IF i > 3 THEN total_distance
    ELSE LET diff == Abs(mirrored_co[i] - other_world_co[i])
         IN  IF TooFar(diff, threshold) THEN Inf
             ELSE TotalDistance(i + 1, total_distance + diff * diff,
                                mirrored_co, other_world_co, threshold)

\* Closer with "<=": the last of several nearest candidates wins.
CloserOrEqual(distance, min_distance) ==
    distance # Inf /\ (min_distance = Inf \/ distance <= min_distance)

\* "if distance < min_distance": a candidate replaces the best one so far.
Closer(distance, min_distance) == Below(distance, min_distance)

\* The loop "for other_vert in all_verts": closest_vert at its end (0: None).
RECURSIVE ClosestLoop(_, _, _, _, _, _, _, _, _, _)
ClosestLoop(other_vert, closest_vert, min_distance, bm, mat, sel_vert, sel_world_co, mirrored_co, axis_idx, threshold) ==
    IF other_vert > Len(bm) THEN closest_vert
    ELSE LET other_world_co == WorldCo(mat, bm[other_vert])
             total_distance ==
                 TotalDistance(1, 0, mirrored_co, other_world_co, threshold)
             Continue == ClosestLoop(other_vert + 1, closest_vert, min_distance,
                                     bm, mat, sel_vert, sel_world_co, mirrored_co,
                                     axis_idx, threshold)
         IN  IF NotCandidate(bm, sel_vert, other_vert) THEN Continue
             ELSE IF SameSide(sel_world_co[axis_idx], other_world_co[axis_idx])
                  THEN Continue
             ELSE IF total_distance # Inf /\ Closer(total_distance, min_distance)
                  THEN ClosestLoop(other_vert + 1, other_vert, total_distance,
                                   bm, mat, sel_vert, sel_world_co, mirrored_co,
                                   axis_idx, threshold)
             ELSE Continue

\* closest_vert for sel_vert: sel_world_co and mirrored_co, then the loop.
ClosestVert(bm, mat, sel_vert, axis_idx, threshold) ==
    LET sel_world_co == WorldCo(mat, bm[sel_vert])
        mirrored_co == Mirrored(sel_world_co, axis_idx)
    IN  ClosestLoop(1, 0, Inf, bm, mat, sel_vert, sel_world_co, mirrored_co,
                    axis_idx, threshold)

\* SnapWorldCo as the mirrored position of the selected vertex itself.
SnapToOwnMirror(sel_world_co, other_world_co, axis_idx) ==
    [sel_world_co EXCEPT ![axis_idx] = -sel_world_co[axis_idx]]

\* SnapWorldCo without the negation: the position of the match.
SnapOntoMatch(sel_world_co, other_world_co, axis_idx) == other_world_co

\* new_co: the world position of the match with the axis coordinate negated.
SnapWorldCo(sel_world_co, other_world_co, axis_idx) ==
    [other_world_co EXCEPT ![axis_idx] = -other_world_co[axis_idx]]

\* The loop "for sel_vert in selected_verts", on the mesh as it stands after
\* the vertices before sel_vert were moved.
RECURSIVE SnapLoop(_, _, _, _, _, _)
SnapLoop(selected_verts, k, acc, mat, axis_idx, threshold) ==
    IF k > Len(selected_verts) THEN acc
    ELSE LET sel_vert == selected_verts[k]
             bm == acc.bm
             closest_vert == ClosestVert(bm, mat, sel_vert, axis_idx, threshold)
             new_co == SnapWorldCo(WorldCo(mat, bm[sel_vert]),
                                   WorldCo(mat, bm[closest_vert]), axis_idx)
             new_local_co == MatVec(Inverted(mat), new_co)
         IN  IF closest_vert # 0
             THEN SnapLoop(selected_verts, k + 1,
                           [bm |-> [bm EXCEPT ![sel_vert].co = new_local_co],
                            matched_count |-> acc.matched_count + 1,
                            unmatched_count |-> acc.unmatched_count,
                            closest |-> [acc.closest EXCEPT ![sel_vert] = closest_vert]],
                           mat, axis_idx, threshold)
             ELSE SnapLoop(selected_verts, k + 1,
                           [acc EXCEPT !.unmatched_count = @ + 1],
                           mat, axis_idx, threshold)

SnapToSymmetryResult(bm, mat, p) ==
    SnapLoop(SelectedVerts(bm), 1,
             [bm |-> bm, matched_count |-> 0, unmatched_count |-> 0,
              closest |-> [i \in 1..Len(bm) |-> 0]],
             mat, AxisIdx(p.sym_axis), p.sym_threshold)

SnapToSymmetry ==
    \/ NoEditObject("object.snap_to_symmetry")
    \/ \E p \in SymProps :
        /\ Called("object.snap_to_symmetry", TRUE, p)
        /\ IF SelectedVerts(verts) = << >>
           THEN /\ report' = Report("WARNING", "No vertices selected!", 0, 0)
                /\ status' = "CANCELLED"
                /\ closest' = NoClosest
                /\ UNCHANGED verts
           ELSE LET r == SnapToSymmetryResult(verts, matrix_world, p)
                IN  /\ verts' = r.bm
                    /\ closest' = [axis |-> p.sym_axis, vert |-> r.closest]
                    /\ report' = Report("INFO", "Snapped",
                                        r.matched_count, r.unmatched_count)
                    /\ status' = "FINISHED"

(* ------------------------------------------------------------------ *)
(* Check Symmetry                                                      *)
(* ------------------------------------------------------------------ *)

\* DeselectAll left out: the selection of before the call stays.
KeepSelection(bm) == bm

\* "for v in bm.verts: v.select = False"
DeselectAll(bm) == WithSelect(bm, [i \in DOMAIN bm |-> FALSE])

\* world_x, world_y, world_z: the world position of every vertex.
WorldPoints(bm, mat) == [i \in DOMAIN bm |-> WorldCo(mat, bm[i])]

DistSq(a, b) ==
    (a[1] - b[1]) * (a[1] - b[1]) + (a[2] - b[2]) * (a[2] - b[2])
        + (a[3] - b[3]) * (a[3] - b[3])

\* dist of kd.find(q): the (squared) distance from q to the nearest point of
\* the tree, None (here Inf) when the tree is empty.
KdFindDist(points, q) ==
    IF Len(points) = 0 THEN Inf
    ELSE LET near == CHOOSE i \in DOMAIN points :
                        \A j \in DOMAIN points :
                            DistSq(points[i], q) <= DistSq(points[j], q)
         IN  DistSq(points[near], q)

\* OnCenterPlane with "<": a vertex at exactly the threshold is off the plane.
OnCenterPlaneStrict(ax_val, threshold) == Abs(ax_val) < threshold

\* "if abs(ax_val) <= threshold: continue"
OnCenterPlane(ax_val, threshold) == Abs(ax_val) <= threshold

\* (mx, my, mz): the if / elif / else on axis_idx.
MirrorQuery(w, axis_idx) ==
    IF axis_idx = 1 THEN <<-w[1], w[2], w[3]>>
    ELSE IF axis_idx = 2 THEN <<w[1], -w[2], w[3]>>
    ELSE <<w[1], w[2], -w[3]>>

\* NoMirror with the comparison turned round.
NoMirrorInverted(dist, threshold) ==
    dist = Inf \/ dist < threshold * threshold

\* "if dist is None or dist > threshold"
NoMirror(dist, threshold) == dist = Inf \/ dist > threshold * threshold

\* Whether the loop appends i to asymmetric_indices.
IsAsymmetric(points, i, axis_idx, threshold) ==
    IF OnCenterPlane(points[i][axis_idx], threshold) THEN FALSE
    ELSE NoMirror(KdFindDist(points, MirrorQuery(points[i], axis_idx)), threshold)

RECURSIVE AsymmetricFrom(_, _, _, _)
AsymmetricFrom(points, i, axis_idx, threshold) ==
    IF i > Len(points) THEN << >>
    ELSE IF IsAsymmetric(points, i, axis_idx, threshold)
         THEN <<i>> \o AsymmetricFrom(points, i + 1, axis_idx, threshold)
    ELSE AsymmetricFrom(points, i + 1, axis_idx, threshold)

AsymmetricIndices(bm, mat, p) ==
    AsymmetricFrom(WorldPoints(bm, mat), 1, AxisIdx(p.sym_axis), p.sym_threshold)

\* "for i in asymmetric_indices: bm.verts[i].select = True"
RECURSIVE SelectLoop(_, _, _)
SelectLoop(indices, k, bm) ==
    IF k > Len(indices) THEN bm
    ELSE SelectLoop(indices, k + 1, [bm EXCEPT ![indices[k]].select = TRUE])

\* The report of Check Symmetry for a given number of asymmetric vertices.
CheckReport(count) ==
    IF count # 0
    THEN Report("WARNING", "Asymmetric vertices found", count, 0)
    ELSE Report("INFO", "Model is fully symmetric", 0, 0)

CheckSymmetry ==
    \/ NoEditObject("object.check_symmetry")
    \/ \E p \in SymProps :
        /\ Called("object.check_symmetry", TRUE, p)
        /\ closest' = CarryClosest
        /\ LET asymmetric_indices == AsymmetricIndices(verts, matrix_world, p)
           IN  /\ verts' = SelectLoop(asymmetric_indices, 1, DeselectAll(verts))
               /\ report' = CheckReport(Len(asymmetric_indices))
        /\ status' = "FINISHED"

(* ------------------------------------------------------------------ *)
(* Specifications                                                      *)
(* ------------------------------------------------------------------ *)

\* No operator has been called yet.
FirstCall == op = "none"

\* Each operator as the first call made on the mesh.
FirstSelectAxisVertices == FirstCall /\ SelectAxisVertices

FirstDeselectAxisVertices == FirstCall /\ DeselectAxisVertices

FirstSelectCenterVertices == FirstCall /\ SelectCenterVertices

FirstSnapToSymmetry == FirstCall /\ SnapToSymmetry

FirstCheckSymmetry == FirstCall /\ CheckSymmetry

FirstSnapToMiddle == FirstCall /\ SnapToMiddle

\* One call of any of the six operators on every mesh of up to MaxVertsAll
\* vertices.
Init == InitWith(MaxVertsAll)

Next ==
    \/ FirstSelectAxisVertices
    \/ FirstDeselectAxisVertices
    \/ FirstSelectCenterVertices
    \/ FirstSnapToSymmetry
    \/ FirstCheckSymmetry
    \/ FirstSnapToMiddle

Spec == Init /\ [][Next]_vars

\* One call of Snap to Symmetry on every mesh of up to MaxVerts vertices.
InitSnap == InitWith(MaxVerts)

NextSnap == FirstSnapToSymmetry

SpecSnap == InitSnap /\ [][NextSnap]_vars

\* One call of Check Symmetry on every mesh of up to MaxVerts vertices.
InitCheck == InitWith(MaxVerts)

NextCheck == FirstCheckSymmetry

SpecCheck == InitCheck /\ [][NextCheck]_vars

\* Any sequence of calls of Snap to Symmetry and Check Symmetry on every mesh
\* of up to MaxVertsSession vertices.
InitSnapCheck == InitWith(MaxVertsSession)

NextSnapCheck ==
    \/ SnapToSymmetry
    \/ CheckSymmetry

SpecSnapCheck == InitSnapCheck /\ [][NextSnapCheck]_vars

\* Any sequence of calls of Snap to Middle on every mesh of up to
\* MaxVertsSession vertices.
InitMiddle == InitWith(MaxVertsSession)

NextMiddle == SnapToMiddle

SpecMiddle == InitMiddle /\ [][NextMiddle]_vars

(* ------------------------------------------------------------------ *)
(* Vocabulary of the properties                                        *)
(* ------------------------------------------------------------------ *)

Finished(name) == op = name /\ status = "FINISHED"

Cancelled(name) == op = name /\ status = "CANCELLED"

Indices == 1..Len(verts)

\* World position of vertex i after, and before, the last call.
WorldNow(i) == WorldCo(matrix_world, verts[i])

WorldBefore(i) == WorldCo(matrix_world, prev_verts[i])

SelectedBefore == {i \in 1..Len(prev_verts) : prev_verts[i].select}

\* The mirror axis (as a coordinate index) and threshold of the last call.
SymAxis == AxisIdx(props.sym_axis)

SymThreshold == props.sym_threshold

\* The reflection of a point through the plane of axis ax.
Reflect(w, ax) == [i \in 1..3 |-> IF i = ax THEN -w[i] ELSE w[i]]

SqDist(a, b) ==
    (a[1] - b[1]) * (a[1] - b[1]) + (a[2] - b[2]) * (a[2] - b[2])
        + (a[3] - b[3]) * (a[3] - b[3])

\* Every coordinate of b is within t of the same coordinate of a.
WithinBox(a, b, t) == \A i \in 1..3 : Abs(a[i] - b[i]) <= t

\* The vertices Snap to Symmetry may match s with, on the mesh before the call.
Eligible(s) ==
    LET ws == WorldBefore(s)
        target == Reflect(ws, SymAxis)
    IN  {o \in 1..Len(prev_verts) :
            /\ ~prev_verts[o].select
            /\ ws[SymAxis] * WorldBefore(o)[SymAxis] < 0
            /\ WithinBox(target, WorldBefore(o), SymThreshold)}

MirrorDist(s, o) == SqDist(Reflect(WorldBefore(s), SymAxis), WorldBefore(o))

\* The reference match of s: nearest eligible vertex, first in vertex order
\* among the nearest; 0 when there is none.
Best(s) ==
    LET e == Eligible(s)
        d == [o \in e |-> MirrorDist(s, o)]
    IN  IF e = {} THEN 0
        ELSE CHOOSE o \in e :
                \A q \in e : d[o] < d[q] \/ (d[o] = d[q] /\ o <= q)

(* ------------------------------------------------------------------ *)
(* C1                                                                  *)
(* ------------------------------------------------------------------ *)

\* C1: in Snap to Symmetry the partner picked for a selected vertex s, if
\* any, is a vertex other than s that is unselected, lies strictly on the
\* opposite side of the mirror plane (product of the axis coordinates < 0)
\* and differs from the mirrored position of s by at most the threshold on
\* each of the three coordinates; only selected vertices get a partner.
C1_PartnerIsAdmissible ==
    Finished("object.snap_to_symmetry") =>
        \A s \in Indices :
            LET o == closest.vert[s]
            IN  o # 0 =>
                    /\ s \in SelectedBefore
                    /\ o \in Indices
                    /\ o # s
                    /\ ~prev_verts[o].select
                    /\ WorldBefore(s)[SymAxis] * WorldBefore(o)[SymAxis] < 0
                    /\ WorldBefore(s)[SymAxis] # 0
                    /\ WorldBefore(o)[SymAxis] # 0
                    /\ \A i \in 1..3 :
                        Abs(Reflect(WorldBefore(s), SymAxis)[i] - WorldBefore(o)[i])
                            <= SymThreshold

\* A vertex was matched although another unselected vertex on the opposite
\* side was out of reach on some coordinate.
C1_Witness ==
    /\ Finished("object.snap_to_symmetry")
    /\ \E s, r \in Indices :
        /\ closest.vert[s] # 0
        /\ r # closest.vert[s]
        /\ ~prev_verts[r].select
        /\ WorldBefore(s)[SymAxis] * WorldBefore(r)[SymAxis] < 0
        /\ ~WithinBox(Reflect(WorldBefore(s), SymAxis), WorldBefore(r), SymThreshold)

(* ------------------------------------------------------------------ *)
(* C2                                                                  *)
(* ------------------------------------------------------------------ *)

\* C2: Snap to Symmetry moves every selected vertex s to the mirror image
\* of its reference match Best(s) (the eligible vertex nearest to the
\* mirrored position of s, first in vertex order on ties), and leaves s
\* where it was when there is none; with a selection it always finishes,
\* and matched + unmatched is the number of selected vertices.
C2_SnapMatchesReference ==
    /\ (op = "object.snap_to_symmetry" /\ edit_object /\ SelectedBefore # {})
            => status = "FINISHED"
    /\ Finished("object.snap_to_symmetry") =>
        LET best == [s \in SelectedBefore |-> Best(s)]
        IN  /\ \A s \in SelectedBefore :
                WorldNow(s) = IF best[s] # 0
                              THEN Reflect(WorldBefore(best[s]), SymAxis)
                              ELSE WorldBefore(s)
            /\ report.type = "INFO"
            /\ report.a = Cardinality({s \in SelectedBefore : best[s] # 0})
            /\ report.b = Cardinality({s \in SelectedBefore : best[s] = 0})
            /\ report.a + report.b = Cardinality(SelectedBefore)

\* One vertex had two nearest eligible vertices at different places and went
\* to the mirror image of the first, which is neither where that vertex is
\* nor the vertex's own mirrored position.
C2_Witness ==
    /\ Finished("object.snap_to_symmetry")
    /\ \E s \in SelectedBefore : \E o, q \in Eligible(s) :
        /\ o < q
        /\ o = Best(s)
        /\ MirrorDist(s, o) = MirrorDist(s, q)
        /\ WorldBefore(o) # WorldBefore(q)
        /\ WorldNow(s) # WorldBefore(o)
        /\ WorldNow(s) # Reflect(WorldBefore(s), SymAxis)
        /\ WorldNow(s) # WorldBefore(s)

(* ------------------------------------------------------------------ *)
(* C3                                                                  *)
(* ------------------------------------------------------------------ *)

\* No vertex of the mesh lies within Euclidean distance t of the mirror
\* image of vertex i (i itself is one of the vertices looked at).
NoVertexNearMirror(i, ax, t) ==
    \A j \in Indices : SqDist(WorldBefore(j), Reflect(WorldBefore(i), ax)) > t * t

\* C3: after Check Symmetry vertex i is selected if and only if its axis
\* coordinate exceeds the threshold in absolute value and no vertex lies
\* within Euclidean distance threshold of its mirrored position; this reads
\* positions only, so the selection of before the call plays no part, and
\* no position changes.
C3_SelectionIsAsymmetricSet ==
    Finished("object.check_symmetry") =>
        /\ Len(verts) = Len(prev_verts)
        /\ \A i \in Indices :
            /\ verts[i].co = prev_verts[i].co
            /\ verts[i].select <=>
                /\ Abs(WorldBefore(i)[SymAxis]) > SymThreshold
                /\ NoVertexNearMirror(i, SymAxis, SymThreshold)

\* A selected vertex with a mirror partner was deselected, and an unselected
\* one was selected although a vertex lies within the threshold of its
\* mirrored position on every single coordinate (but not in distance).
C3_Witness ==
    /\ Finished("object.check_symmetry")
    /\ \E i, j, k \in Indices :
        /\ prev_verts[i].select
        /\ ~verts[i].select
        /\ Abs(WorldBefore(i)[SymAxis]) > SymThreshold
        /\ ~prev_verts[j].select
        /\ verts[j].select
        /\ WithinBox(Reflect(WorldBefore(j), SymAxis), WorldBefore(k), SymThreshold)

(* ------------------------------------------------------------------ *)
(* C4                                                                  *)
(* ------------------------------------------------------------------ *)

\* C4: Check Symmetry leaves every vertex unselected whose axis coordinate
\* is at most the threshold in absolute value, wherever the other vertices
\* are.
C4_CenterPlaneIsSymmetric ==
    Finished("object.check_symmetry") =>
        \A i \in Indices :
            Abs(WorldBefore(i)[SymAxis]) <= SymThreshold => ~verts[i].select

\* A vertex exactly at the threshold, selected before and with no vertex
\* anywhere near its mirrored position, is left unselected, while another
\* vertex is found asymmetric.
C4_Witness ==
    /\ Finished("object.check_symmetry")
    /\ \E i, j \in Indices :
        /\ Abs(WorldBefore(i)[SymAxis]) = SymThreshold
        /\ prev_verts[i].select
        /\ NoVertexNearMirror(i, SymAxis, SymThreshold)
        /\ ~verts[i].select
        /\ verts[j].select

(* ------------------------------------------------------------------ *)
(* C5                                                                  *)
(* ------------------------------------------------------------------ *)

\* Every vertex has a vertex at exactly its mirrored position.
PerfectlyMirrored(ax) ==
    \A i \in 1..Len(prev_verts) : \E j \in 1..Len(prev_verts) :
        WorldBefore(j) = Reflect(WorldBefore(i), ax)

\* C5: on a mesh in which every vertex has a vertex at exactly its mirrored
\* position, Check Symmetry selects nothing and reports the "fully
\* symmetric" outcome (INFO), not "asymmetric vertices found".
C5_MirroredMeshIsSymmetric ==
    (Finished("object.check_symmetry") /\ PerfectlyMirrored(SymAxis)) =>
        /\ \A i \in Indices : ~verts[i].select
        /\ report = Report("INFO", "Model is fully symmetric", 0, 0)

\* A mirrored mesh with vertices off the center plane, some selected before.
C5_Witness ==
    /\ Finished("object.check_symmetry")
    /\ PerfectlyMirrored(SymAxis)
    /\ \E i, j \in Indices :
        /\ Abs(WorldBefore(i)[SymAxis]) > SymThreshold
        /\ i # j
        /\ WorldBefore(j) = Reflect(WorldBefore(i), SymAxis)
        /\ prev_verts[i].select

(* ------------------------------------------------------------------ *)
(* C9                                                                  *)
(* ------------------------------------------------------------------ *)

\* C9 as stated: within one Snap to Symmetry two distinct selected vertices
\* are never matched to the same partner.
C9_OneToOne ==
    Finished("object.snap_to_symmetry") =>
        \A s, t \in Indices :
            (s # t /\ closest.vert[s] # 0) => closest.vert[s] # closest.vert[t]

\* C9, amended: the search is many-to-one.  Every selected vertex gets at
\* most one partner, found among all unselected vertices whether or not
\* another selected vertex was matched to it already (the partner is the
\* reference match on the mesh of before the call); selected vertices that
\* share a partner all end on that partner's mirror position.
C9_ManyToOne ==
    Finished("object.snap_to_symmetry") =>
        /\ \A s \in SelectedBefore : closest.vert[s] = Best(s)
        /\ \A s, t \in Indices :
            (closest.vert[s] # 0 /\ closest.vert[s] = closest.vert[t]) =>
                /\ WorldNow(s) = WorldNow(t)
                /\ WorldNow(s) = Reflect(WorldBefore(closest.vert[s]), SymAxis)

\* Two selected vertices at different places were matched to one partner.
C9_Witness ==
    /\ Finished("object.snap_to_symmetry")
    /\ \E s, t \in Indices :
        /\ s # t
        /\ closest.vert[s] # 0
        /\ closest.vert[s] = closest.vert[t]
        /\ WorldBefore(s) # WorldBefore(t)

(* ------------------------------------------------------------------ *)
(* C6                                                                  *)
(* ------------------------------------------------------------------ *)

AxisFilters == {"object.select_axis_vertices", "object.deselect_axis_vertices"}

\* C6: a call that returns CANCELLED leaves every position and every
\* selection flag as it was.  Without an edit object the report is an
\* ERROR; with one it is a WARNING and the cause is an empty configuration:
\* no sign flag for an axis filter, no axis for Select Center, no selected
\* vertex for Snap to Symmetry and Snap to Middle.  Those causes always
\* cancel.
C6_CancelledChangesNothing ==
    /\ status = "CANCELLED" =>
        /\ verts = prev_verts
        /\ ~edit_object => report.type = "ERROR"
        /\ edit_object =>
            /\ report.type = "WARNING"
            /\ \/ (op \in AxisFilters /\ ~AnyFlag(props))
               \/ (op = "object.select_center_vertices" /\ ~AnyUse(props))
               \/ /\ op \in {"object.snap_to_symmetry", "object.snap_to_middle"}
                  /\ SelectedBefore = {}
    /\ (op # "none" /\ ~edit_object) => status = "CANCELLED"
    /\ (op \in AxisFilters /\ ~AnyFlag(props)) => status = "CANCELLED"
    /\ (op = "object.select_center_vertices" /\ ~AnyUse(props))
            => status = "CANCELLED"
    /\ (op \in {"object.snap_to_symmetry", "object.snap_to_middle"}
            /\ SelectedBefore = {}) => status = "CANCELLED"

\* Check Symmetry was cancelled for want of an edit object on a mesh with a
\* selected and an unselected vertex.
C6_Witness ==
    /\ Cancelled("object.check_symmetry")
    /\ ~edit_object
    /\ report.type = "ERROR"
    /\ \E i, j \in Indices : verts[i].select /\ ~verts[j].select

(* ------------------------------------------------------------------ *)
(* C8                                                                  *)
(* ------------------------------------------------------------------ *)

\* A vertex at world position w passes every enabled flag of p: strictly
\* positive for a "+" flag, strictly negative for a "-" flag.
Qualifies(p, w) ==
    /\ p.x_pos => w[1] > 0
    /\ p.x_neg => w[1] < 0
    /\ p.y_pos => w[2] > 0
    /\ p.y_neg => w[2] < 0
    /\ p.z_pos => w[3] > 0
    /\ p.z_neg => w[3] < 0

BothSigns(p) ==
    (p.x_pos /\ p.x_neg) \/ (p.y_pos /\ p.y_neg) \/ (p.z_pos /\ p.z_neg)

\* C8: Select Vertices by Axis with at least one flag enabled finishes and
\* sets each vertex selected if and only if it passes every enabled flag,
\* whatever was selected before: a vertex at exactly 0 on a flagged axis is
\* not selected, and "+" and "-" of one axis together select nothing.  No
\* position changes.
C8_SelectIffPassesEveryFlag ==
    /\ (op = "object.select_axis_vertices" /\ edit_object /\ AnyFlag(props))
            => status = "FINISHED"
    /\ Finished("object.select_axis_vertices") =>
        /\ AnyFlag(props)
        /\ \A i \in Indices :
            /\ verts[i].co = prev_verts[i].co
            /\ verts[i].select <=> Qualifies(props, WorldBefore(i))
            /\ BothSigns(props) => ~verts[i].select

\* With a "+" flag and a flag of another axis enabled, a selected vertex at
\* exactly 0 on the "+" axis was deselected and an unselected vertex that
\* passes both flags was selected.
C8_Witness ==
    /\ Finished("object.select_axis_vertices")
    /\ props.x_pos \/ props.y_pos \/ props.z_pos
    /\ props.x_neg \/ props.y_neg \/ props.z_neg
    /\ \E i, j \in Indices :
        /\ prev_verts[i].select
        /\ ~verts[i].select
        /\ \/ (props.x_pos /\ WorldBefore(i)[1] = 0)
           \/ (props.y_pos /\ WorldBefore(i)[2] = 0)
           \/ (props.z_pos /\ WorldBefore(i)[3] = 0)
        /\ ~prev_verts[j].select
        /\ verts[j].select

(* ------------------------------------------------------------------ *)
(* C7                                                                  *)
(* ------------------------------------------------------------------ *)

\* What one finished Snap to Middle does to the mesh: every selected vertex
\* gets world coordinate 0 on the chosen axis and keeps the other two, no
\* unselected vertex moves and no selection flag changes.
MiddleStep ==
    (op' = "object.snap_to_middle" /\ status' = "FINISHED") =>
        /\ Len(verts') = Len(verts)
        /\ \A i \in Indices :
            /\ verts'[i].select = verts[i].select
            /\ verts[i].select =>
                \A k \in 1..3 :
                    WorldCo(matrix_world', verts'[i])[k] =
                        IF k = AxisIdx(props'.sym_axis) THEN 0 ELSE WorldNow(i)[k]
            /\ ~verts[i].select => verts'[i].co = verts[i].co

\* Snap to Middle called again right after a finished Snap to Middle on the
\* same axis finishes too and changes neither positions nor selection.
MiddleAgain ==
    (/\ Finished("object.snap_to_middle")
     /\ op' = "object.snap_to_middle"
     /\ edit_object'
     /\ props'.sym_axis = props.sym_axis) =>
        /\ status' = "FINISHED"
        /\ verts' = verts

\* C7: Snap to Middle is idempotent: a second run directly after the first,
\* on the same axis, gives the positions and selection of the first; and
\* one run puts every selected vertex at coordinate exactly 0 on the chosen
\* axis with its other two coordinates unchanged and moves no unselected
\* vertex.
C7_SnapToMiddleIdempotent == [][MiddleStep /\ MiddleAgain]_vars

\* Snap to Middle ran along the direction of the first local coordinate and
\* changed nothing, on a mesh with a selected vertex whose first coordinate
\* is 0: no initial position has that, so an earlier Snap to Middle put it
\* there; an unselected vertex is off the plane.
C7_Witness ==
    /\ Finished("object.snap_to_middle")
    /\ verts = prev_verts
    /\ MatVec(matrix_world, <<1, 0, 0>>)[SymAxis] = 1
    /\ \E i, j \in Indices :
        /\ verts[i].select
        /\ verts[i].co \notin Positions
        /\ WorldNow(i)[SymAxis] = 0
        /\ ~verts[j].select
        /\ WorldNow(j)[SymAxis] # 0

(* ------------------------------------------------------------------ *)
(* C10                                                                 *)
(* ------------------------------------------------------------------ *)

\* Check Symmetry ran directly after a finished Snap to Symmetry, on the
\* same axis: the record of the matches is still there.
CheckedAfterSnap ==
    /\ Finished("object.check_symmetry")
    /\ closest # NoClosest
    /\ closest.axis = props.sym_axis

\* C10: Snap to Symmetry moves no unselected vertex and changes no selection
\* flag; and when Check Symmetry runs directly after it on the same axis,
\* with any threshold, every vertex the snap matched and the partner it was
\* matched to are both classified symmetric (left unselected).
C10_SnappedPairsAreSymmetric ==
    /\ Finished("object.snap_to_symmetry") =>
        /\ Len(verts) = Len(prev_verts)
        /\ \A i \in Indices :
            /\ verts[i].select = prev_verts[i].select
            /\ ~prev_verts[i].select => verts[i].co = prev_verts[i].co
    /\ CheckedAfterSnap =>
        \A s \in Indices :
            closest.vert[s] # 0 =>
                /\ ~verts[s].select
                /\ ~verts[closest.vert[s]].select

\* Check Symmetry ran directly after a snap that matched a vertex to a
\* partner, with both off the center plane, so that the KDTree query had
\* to find the mirror image of each.
C10_Witness ==
    /\ CheckedAfterSnap
    /\ \E s \in Indices :
        /\ closest.vert[s] # 0
        /\ Abs(WorldNow(s)[SymAxis]) > SymThreshold
        /\ Abs(WorldNow(closest.vert[s])[SymAxis]) > SymThreshold
        /\ prev_verts[s].select

====
